---- MODULE Spec2Model ----
(***************************************************************************)
(* A model of python-scsi's device session (pyscsi/pyscsi/scsi_device.py)  *)
(* and of the PositionToElement command layout                             *)
(* (pyscsi/pyscsi/scsi_cdb_positiontoelement.py).                          *)
(*                                                                         *)
(* The transport (linux_sgio) and os.stat are the environment: every       *)
(* outcome they can produce is an input drawn with \E by the action that   *)
(* calls them.  Each method of SCSIDevice is an operator from a session    *)
(* record to a session record, and each action runs one whole method.      *)
(***************************************************************************)
EXTENDS Integers, Sequences, FiniteSets, TLC

\* ------------------------------------------------------------- bounds
NumInodes == 2      \* distinct identities (st_ino) a device at the path can have
MaxHandles == 2     \* transport handles acquired over one run
MaxDataLen == 1     \* length of a non-empty cmd.datain / cmd.dataout
MaxSense == 1       \* distinct contents the transport can give the sense buffer

\* ---------------------------------------------------------- constants
None == 0           \* Python's None (_fd, _ino before open); also: no device node at the path
NoExc == "none"     \* no exception raised

Inodes == 1..NumInodes
Paths == Inodes \cup {None}          \* what os.stat(self._file_name) can find
NoSense == None                      \* the sense buffer of a new command: all zero
SenseVals == 1..MaxSense             \* what the transport can write into it

\* scsi_enum_command.SCSI_STATUS members the code compares with, and the others
GOOD == "GOOD"
CHECK_CONDITION == "CHECK_CONDITION"
SGIO_ERROR == "SGIO_ERROR"
StatusCodes == {GOOD, CHECK_CONDITION, SGIO_ERROR, "BUSY"}

\* linux_sgio.DXFER_*
DXFER_NONE == "DXFER_NONE"
DXFER_FROM_DEV == "DXFER_FROM_DEV"
DXFER_TO_DEV == "DXFER_TO_DEV"


\* ------------------------------------------------------------ the codec
\* The field codec (SCSICommand.build_cdb / marshall / unmarshall and the helpers
\* they use) packs a mapping of field values into a byte buffer under a layout
\* {name: [mask, byte offset]} and unpacks it again.

RECURSIVE BitAnd(_, _)
BitAnd(a, b) ==
    IF a = 0 \/ b = 0 THEN 0
    ELSE (a % 2) * (b % 2) + 2 * BitAnd(a \div 2, b \div 2)

RECURSIVE BitOr(_, _)
BitOr(a, b) ==
    IF a = 0 THEN b
    ELSE IF b = 0 THEN a
    ELSE (IF a % 2 = 1 \/ b % 2 = 1 THEN 1 ELSE 0) + 2 * BitOr(a \div 2, b \div 2)

RECURSIVE Pow2(_)
Pow2(k) == IF k = 0 THEN 1 ELSE 2 * Pow2(k - 1)

\* the bytes a mask spans
RECURSIVE NumBytes(_)
NumBytes(mask) == IF mask <= \Hff THEN 1 ELSE 1 + NumBytes(mask \div 256)

\* the position of the lowest set bit of a mask
RECURSIVE Shift(_)
Shift(mask) == IF mask = 0 \/ mask % 2 = 1 THEN 0 ELSE 1 + Shift(mask \div 2)

\* an integer as n bytes, most significant first
RECURSIVE IntToBytes(_, _)
IntToBytes(v, n) ==
    IF n = 0 THEN <<>> ELSE Append(IntToBytes(v \div 256, n - 1), v % 256)

\* n bytes, most significant first, as one integer
RECURSIVE BytesToInt(_)
BytesToInt(ba) ==
    IF ba = <<>> THEN 0
    ELSE 256 * BytesToInt(SubSeq(ba, 1, Len(ba) - 1)) + ba[Len(ba)]

\* An integer of more than 31 bits (a mask of four or eight bytes, and the values
\* under it) is written as the sequence of its bytes, most significant first;
\* the operators below are the bit operations of the codec on such integers.
WAnd(a, b) == [i \in DOMAIN a |-> BitAnd(a[i], b[i])]
WOr(a, b) == [i \in DOMAIN a |-> BitOr(a[i], b[i])]

\* a >> 1 and a << 1, within the bytes of a
WShr1(a) ==
    [i \in DOMAIN a |-> (a[i] \div 2) + (IF i > 1 THEN 128 * (a[i - 1] % 2) ELSE 0)]
WShl1(a) ==
    [i \in DOMAIN a |->
        ((2 * a[i]) % 256) + (IF i < Len(a) THEN a[i + 1] \div 128 ELSE 0)]

RECURSIVE WShr(_, _)
WShr(a, k) == IF k = 0 THEN a ELSE WShr(WShr1(a), k - 1)

RECURSIVE WShl(_, _)
WShl(a, k) == IF k = 0 THEN a ELSE WShl(WShl1(a), k - 1)

\* the position of the lowest set bit of a mask written as bytes
RECURSIVE WShift(_)
WShift(mask) ==
    IF (\A i \in DOMAIN mask : mask[i] = 0) \/ mask[Len(mask)] % 2 = 1 THEN 0
    ELSE 1 + WShift(WShr1(mask))

\* 2^k as an integer of n bytes
WPow2(k, n) == [i \in 1..n |-> IF i = n - (k \div 8) THEN Pow2(k % 8) ELSE 0]

\* _cdb_bits with destination_address one byte early, over medium_transport_address
_cdb_bits_overlap ==
    <<[name |-> "opcode", mask |-> \Hff, offset |-> 0],
      [name |-> "medium_transport_address", mask |-> \Hffff, offset |-> 2],
      [name |-> "destination_address", mask |-> \Hffff, offset |-> 3],
      [name |-> "invert", mask |-> \H01, offset |-> 8]>>

\* _cdb_bits with medium_transport_address in bytes 1-2
_cdb_bits_byte1 ==
    <<[name |-> "opcode", mask |-> \Hff, offset |-> 0],
      [name |-> "medium_transport_address", mask |-> \Hffff, offset |-> 1],
      [name |-> "destination_address", mask |-> \Hffff, offset |-> 4],
      [name |-> "invert", mask |-> \H01, offset |-> 8]>>

\* _cdb_bits with invert in bit 0 of byte 5, the low bit of destination_address
_cdb_bits_invert5 ==
    <<[name |-> "opcode", mask |-> \Hff, offset |-> 0],
      [name |-> "medium_transport_address", mask |-> \Hffff, offset |-> 2],
      [name |-> "destination_address", mask |-> \Hffff, offset |-> 4],
      [name |-> "invert", mask |-> \H01, offset |-> 5]>>

\* PositionToElement._cdb_bits
_cdb_bits ==
    <<[name |-> "opcode", mask |-> \Hff, offset |-> 0],
      [name |-> "medium_transport_address", mask |-> \Hffff, offset |-> 2],
      [name |-> "destination_address", mask |-> \Hffff, offset |-> 4],
      [name |-> "invert", mask |-> \H01, offset |-> 8]>>

\* The READ CAPACITY(16) payload layout (ReadCapacity16._datain_bits), as the
\* test's payload and results give it.  The masks of returned_lba
\* (0xffffffffffffffff) and block_length (0xffffffff) are written as bytes.
_datain_bits ==
    <<[name |-> "returned_lba", offset |-> 0,
       wmask |-> <<\Hff, \Hff, \Hff, \Hff, \Hff, \Hff, \Hff, \Hff>>],
      [name |-> "block_length", offset |-> 8,
       wmask |-> <<\Hff, \Hff, \Hff, \Hff>>],
      [name |-> "p_type", mask |-> \H0e, offset |-> 12],
      [name |-> "prot_en", mask |-> \H01, offset |-> 12],
      [name |-> "p_i_exponent", mask |-> \Hf0, offset |-> 13],
      [name |-> "lbppbe", mask |-> \H0f, offset |-> 13],
      [name |-> "lbpme", mask |-> \H80, offset |-> 14],
      [name |-> "lbprz", mask |-> \H40, offset |-> 14],
      [name |-> "lowest_aligned_lba", mask |-> \H3fff, offset |-> 14]>>

Names(layout) == {layout[i].name : i \in 1..Len(layout)}
Field(layout, n) == CHOOSE f \in {layout[i] : i \in 1..Len(layout)} : f.name = n

\* is the mask of the field one written as bytes
IsWide(f) == "wmask" \in DOMAIN f

\* the bytes the mask of a field spans
Width(f) == IF IsWide(f) THEN Len(f.wmask) ELSE NumBytes(f.mask)

\* the largest value a field holds
MaxValue(f) ==
    IF IsWide(f) THEN WShr(f.wmask, WShift(f.wmask))
    ELSE f.mask \div Pow2(Shift(f.mask))

\* a buffer of zeros sized to the largest offset + field width of the layout
RECURSIVE BufLen(_)
BufLen(layout) ==
    IF layout = <<>> THEN 0
    ELSE LET f == Head(layout)
             rest == BufLen(Tail(layout))
         IN IF f.offset + Width(f) > rest
            THEN f.offset + Width(f) ELSE rest
ZeroBuf(n) == [i \in 1..n |-> 0]

\* Pack one field: the value is masked to the field's width, shifted to the
\* field's position and OR-ed into the bytes the mask spans, the most
\* significant byte first.  A field the mapping lacks is written as 0.
PackField(buf, f, values) ==
    LET n == Width(f)
        v == IF f.name \in DOMAIN values THEN values[f.name]
             ELSE IF IsWide(f) THEN ZeroBuf(n) ELSE 0
        b == IF IsWide(f) THEN WShl(WAnd(v, MaxValue(f)), WShift(f.wmask))
             ELSE IntToBytes(BitAnd(v, MaxValue(f)) * Pow2(Shift(f.mask)), n)
    IN [i \in DOMAIN buf |->
          IF i > f.offset /\ i <= f.offset + n
          THEN BitOr(buf[i], b[i - f.offset]) ELSE buf[i]]

\* Pack(layout, values, out_buffer)
RECURSIVE Pack(_, _, _)
Pack(layout, values, buf) ==
    IF layout = <<>> THEN buf
    ELSE Pack(Tail(layout), values, PackField(buf, Head(layout), values))

\* Unpack one field: the bytes the mask spans as one big-endian integer, masked
\* and shifted down to bit 0.
UnpackField(buf, f) ==
    LET n == Width(f)
        ba == SubSeq(buf, f.offset + 1, f.offset + n)
    IN IF IsWide(f) THEN WShr(WAnd(ba, f.wmask), WShift(f.wmask))
       ELSE BitAnd(BytesToInt(ba), f.mask) \div Pow2(Shift(f.mask))

\* Unpack(layout, in_buffer)
Unpack(layout, buf) ==
    [n \in Names(layout) |-> UnpackField(buf, Field(layout, n))]

\* the layouts of the commands modelled
Layout(id) == IF id = "PositionToElement" THEN _cdb_bits ELSE _datain_bits

\* SCSICommand.build_cdb: the fields given, packed into a zeroed command block
build_cdb(layout, values) == Pack(layout, values, ZeroBuf(BufLen(layout)))

\* PositionToElement.__init__: a command with no data buffers (lengths 0 and 0)
\* whose cdb is built from the opcode value, xfer, dest and invert
PositionToElement(opcode, xfer, dest, invert) ==
    [cdb |-> build_cdb(_cdb_bits,
                       [opcode |-> opcode,
                        medium_transport_address |-> xfer,
                        destination_address |-> dest,
                        invert |-> invert]),
     datain |-> 0, dataout |-> 0, sense |-> None]

\* marshall: a mapping packed into a zeroed buffer of the layout's size
marshall(layout, values) == Pack(layout, values, ZeroBuf(BufLen(layout)))

\* unmarshall
unmarshall(layout, buf) == Unpack(layout, buf)

\* The values tried for a field: every value of a field of up to four bits,
\* and for a wider field the ends of its range, one bit in each byte it spans,
\* and the values of the PositionToElement example; for a field whose mask is
\* written as bytes its largest value, 2^(8(n-2)) and 2^(8(n-3)+4), which are
\* the returned_lba and the block_length of the READ CAPACITY(16) test.
Samples(f) ==
    IF IsWide(f)
    THEN {MaxValue(f), WPow2(8 * (Width(f) - 2), Width(f)),
          WPow2(8 * (Width(f) - 3) + 4, Width(f))}
    ELSE IF MaxValue(f) <= \H07 THEN 0..MaxValue(f)
    ELSE IF MaxValue(f) <= \H0f THEN {0, 1, 8, \H0f}
    ELSE {v \in {0, \H10, \H20, \H2b, \Hff, \H100, \H2001, \Hffff} :
            v <= MaxValue(f)}

\* The mappings tried under a layout: a value for every field, or for one field.
RECURSIVE Whole(_)
Whole(layout) ==
    IF layout = <<>> THEN {<<>>}
    ELSE {(Head(layout).name :> v) @@ m :
            v \in Samples(Head(layout)), m \in Whole(Tail(layout))}
Mappings(layout) ==
    LET single == UNION {{n :> v : v \in Samples(Field(layout, n))} :
                         n \in Names(layout)}
    IN Whole(layout) \cup single

\* the payload with bytes 14 and 15 the other way round
MockPayload_swapped ==
    <<\H00, \H01, \H00, \H00, \H00, \H00, \H00, \H00,
      \H00, \H00, \H10, \H00, \H09, \H88, \H01, \He0>>

\* MockReadCapacity16.execute: the payload the mock device writes into cmd.datain
MockPayload ==
    <<\H00, \H01, \H00, \H00, \H00, \H00, \H00, \H00,
      \H00, \H00, \H10, \H00, \H09, \H88, \He0, \H01>>

\* The payloads a device is taken to return: the one of the mock, and that one
\* with other bytes in its first eight, in bytes 8-11 and in each of bytes 12-15.
Payloads ==
    {SubSeq(MockPayload, 1, 8), <<\Hff, \Hff, \Hff, \Hff, \H80, \H00, \H00, \H01>>}
    \X {SubSeq(MockPayload, 9, 12), <<\H80, \H00, \Hff, \Hff>>}
    \X {MockPayload[13], \H06, \Hff}
    \X {MockPayload[14], \H0f, \H70}
    \X {MockPayload[15], \H40, \H9f}
    \X {MockPayload[16], \Hfe}

\* a payload of Payloads as the sixteen bytes of cmd.datain
Datain(p) == p[1] \o p[2] \o <<p[3], p[4], p[5], p[6]>>

\* A command as the caller hands it to execute: the lengths of its buffers, each
\* empty or MaxDataLen bytes long, and its zeroed sense buffer.  The command
\* with both buffers empty is a PositionToElement command, with its cdb.
Cmds ==
    {c \in [datain : {0, MaxDataLen}, dataout : {0, MaxDataLen}, sense : {NoSense}] :
        c.datain > 0 \/ c.dataout > 0}
    \cup {PositionToElement(\H2b, \H10, \H20, 1)}

VARIABLES
    alive,              \* "no" | "ok" | "failed": did SCSIDevice.__init__ return an object
    _fd,                \* self._fd: the transport handle, or None
    _ino,               \* self._ino: the identity recorded by open, or None
    _detect_replugged,  \* self._detect_replugged
    pathIno,            \* identity of the device now at self._file_name, None when absent
    handles,            \* handle h |-> the times it was passed to linux_sgio.close:
                        \* 0, 1, or 2 for twice or more
    fdDev,              \* the identity of the device the handle _fd is bound to
    scope,              \* the caller's with-block: "out" | "in" | "left"
    propagated,         \* the exception that left the with-block
    lastOp,             \* the last operation run
    pre,                \* [fd, ino, path] when the last operation started
    pending,            \* the exception raised in the with-block and not handled
    calls,              \* the transport / os calls the last operation made, in order
    exc,                \* the exception the last operation raised, or NoExc
    cmd,                \* the command of the last execute, as the call left it
    payload,            \* the argument of the exception raised by the last execute
    unusable,           \* the implicit reopen of an execute failed, and no open has
                        \* succeeded since
    cstep,              \* the codec run: "idle" | "new" | "packed" | "unpacked", or
                        \* "command" | "received" | "unpacked" for a payload read
    layoutId,           \* the layout of the codec run
    values,             \* the mapping handed to marshall
    buf,                \* the buffer marshall produced
    result              \* the mapping unmarshall returned

devVars == <<alive, _fd, _ino, _detect_replugged, pathIno, handles, fdDev, scope,
             propagated, lastOp, pre, pending, calls, exc, cmd, payload, unusable>>
codecVars == <<cstep, layoutId, values, buf, result>>
vars == <<devVars, codecVars>>

\* Before any execute: no command
NoCmd == [datain |-> 0, dataout |-> 0, sense |-> NoSense]

\* One call made to the transport or to os.stat: op is "open", "close", "execute"
\* or "stat"; ret is "raised", "ok", or the status linux_sgio.execute returned;
\* sense is what linux_sgio.execute left in the sense buffer.
Call(op, fd, dir, ret, sense) ==
    [op |-> op, fd |-> fd, dir |-> dir, ret |-> ret, sense |-> sense]

\* The session as the methods see it, at the start of an operation.
Sess ==
    [fd |-> _fd, ino |-> _ino, path |-> pathIno, handles |-> handles, dev |-> fdDev,
     calls |-> <<>>, exc |-> NoExc, cmd |-> NoCmd, payload |-> None]

\* get_inode: os.stat(file).st_ino; raises when there is no device node at the path
get_inode(path) == path

\* _is_replugged that reports a replug on every call
_is_replugged_always(s) == TRUE

\* SCSIDevice._is_replugged
_is_replugged(s) == get_inode(s.path) # s.ino

\* linux_sgio.open: a fresh handle bound to the device now at the path
sgio_open(s) ==
    LET h == Len(s.handles) + 1
    IN [s EXCEPT !.fd = h,
                 !.dev = s.path,
                 !.handles = Append(@, 0),
                 !.calls = Append(@, Call("open", h, "-", "ok", NoSense))]

\* open that leaves the identity recorded as it was
open_keeps_ino(s, openOk, raced) ==
    IF ~openOk
    THEN [s EXCEPT !.calls = Append(@, Call("open", None, "-", "raised", NoSense)),
                   !.exc = "OpenError"]
    ELSE LET s1 == [sgio_open(s) EXCEPT !.path = raced]
         IN IF get_inode(s1.path) = None
            THEN [s1 EXCEPT !.calls = Append(@, Call("stat", None, "-", "raised", NoSense)),
                            !.exc = "StatError"]
            ELSE [s1 EXCEPT !.calls = Append(@, Call("stat", None, "-", "ok", NoSense))]

\* SCSIDevice.open.  openOk: linux_sgio.open succeeds; raced: the device at the
\* path when get_inode runs (it may have been replaced since linux_sgio.open).
open(s, openOk, raced) ==
    IF ~openOk
    THEN [s EXCEPT !.calls = Append(@, Call("open", None, "-", "raised", NoSense)),
                   !.exc = "OpenError"]
    ELSE LET s1 == [sgio_open(s) EXCEPT !.path = raced]
         IN IF get_inode(s1.path) = None
            THEN [s1 EXCEPT !.calls = Append(@, Call("stat", None, "-", "raised", NoSense)),
                            !.exc = "StatError"]
            ELSE [s1 EXCEPT !.calls = Append(@, Call("stat", None, "-", "ok", NoSense)),
                            !.ino = get_inode(s1.path)]

\* SCSIDevice.close: linux_sgio.close(self._fd); self._fd is left as it is.
close(s, closeRaises) ==
    [s EXCEPT !.handles[s.fd] = IF @ < 2 THEN @ + 1 ELSE @,
              !.calls = Append(@, Call("close", s.fd, "-",
                                   IF closeRaises THEN "raised" ELSE "ok", NoSense)),
              !.exc = IF closeRaises THEN "CloseError" ELSE NoExc]

\* reopen without the finally: a close that raises skips the open
reopen_no_finally(s, closeRaises, openOk, raced) ==
    LET c == close(s, closeRaises)
    IN IF c.exc # NoExc THEN c ELSE open(c, openOk, raced)

\* reopen with the exception of open swallowed
reopen_swallow_open(s, closeRaises, openOk, raced) ==
    LET c == close(s, closeRaises)
        o == open([c EXCEPT !.exc = NoExc], openOk, raced)
    IN [o EXCEPT !.exc = c.exc]

\* execute, lines 131-134: try: self.close() finally: self.open().  An exception
\* of open replaces the one of close; otherwise the one of close is re-raised
\* once the finally block is done.
reopen(s, closeRaises, openOk, raced) ==
    LET c == close(s, closeRaises)
        o == open([c EXCEPT !.exc = NoExc], openOk, raced)
    IN IF o.exc # NoExc THEN o ELSE [o EXCEPT !.exc = c.exc]

\* the transfer direction with the two directions exchanged
direction_swapped(c) ==
    IF c.datain > 0 /\ c.dataout > 0 THEN "raise"
    ELSE IF c.datain > 0 THEN DXFER_TO_DEV
    ELSE IF c.dataout > 0 THEN DXFER_FROM_DEV
    ELSE DXFER_NONE

\* execute, lines 136-142: the transfer direction
direction(c) ==
    IF c.datain > 0 /\ c.dataout > 0 THEN "raise"
    ELSE IF c.datain > 0 THEN DXFER_FROM_DEV
    ELSE IF c.dataout > 0 THEN DXFER_TO_DEV
    ELSE DXFER_NONE

\* execute, line 138: raise NotImplemented('Indirect IO is not supported').
\* NotImplemented is not callable, so what the statement raises is a TypeError;
\* it is the rejection of a command with both buffers non-empty.
Rejected == "TypeError"

\* execute, lines 150-153: the exception for a status, NoExc when none is raised
status_exc(status) ==
    IF status = CHECK_CONDITION THEN "CheckCondition"
    ELSE IF status = SGIO_ERROR THEN "SCSISGIOError"
    ELSE NoExc

\* linux_sgio.execute: on an abnormal completion the transport writes the sense
\* buffer of the command
sgio_execute(c, status, sense) ==
    IF status = GOOD THEN c ELSE [c EXCEPT !.sense = sense]

\* submit with the sense bytes copied before the transport ran
submit_stale_sense(s, c, status, sense) ==
    LET c1 == sgio_execute(c, status, sense)
    IN [s EXCEPT !.calls = Append(@, Call("execute", s.fd, direction(c), status, c1.sense)),
                 !.cmd = c1,
                 !.exc = status_exc(status),
                 !.payload = IF status_exc(status) = "CheckCondition"
                             THEN c.sense ELSE None]

\* submit that submits the command a second time after a status that raises
submit_retry(s, c, status, sense) ==
    LET c1 == sgio_execute(c, status, sense)
        one == Call("execute", s.fd, direction(c), status, c1.sense)
    IN [s EXCEPT !.calls = IF status_exc(status) = NoExc THEN Append(@, one)
                           ELSE Append(Append(@, one), one),
                 !.cmd = c1,
                 !.exc = status_exc(status),
                 !.payload = IF status_exc(status) = "CheckCondition"
                             THEN c1.sense ELSE None]

\* execute, lines 144-153: linux_sgio.execute fills cmd.sense (and cmd.datain) in
\* place and returns status; CheckCondition is raised with cmd.sense.
submit(s, c, status, sense) ==
    LET c1 == sgio_execute(c, status, sense)
    IN [s EXCEPT !.calls = Append(@, Call("execute", s.fd, direction(c), status, c1.sense)),
                 !.cmd = c1,
                 !.exc = status_exc(status),
                 !.payload = IF status_exc(status) = "CheckCondition"
                             THEN c1.sense ELSE None]

\* the identity probe made whether or not replug detection is on
probe_unconditional(s, detect) ==
    IF get_inode(s.path) = None
    THEN [s EXCEPT !.calls = Append(@, Call("stat", None, "-", "raised", NoSense)),
                   !.exc = "StatError"]
    ELSE [s EXCEPT !.calls = Append(@, Call("stat", None, "-", "ok", NoSense))]

\* execute, line 130: the identity probe, when replug detection is on
probe(s, detect) ==
    IF ~detect THEN s
    ELSE IF get_inode(s.path) = None
    THEN [s EXCEPT !.calls = Append(@, Call("stat", None, "-", "raised", NoSense)),
                   !.exc = "StatError"]
    ELSE [s EXCEPT !.calls = Append(@, Call("stat", None, "-", "ok", NoSense))]

\* SCSIDevice.execute
execute(s, detect, c, closeRaises, openOk, raced, status, sense) ==
    LET s0 == probe([s EXCEPT !.cmd = c], detect)
        s1 == IF detect /\ _is_replugged(s0)
              THEN reopen(s0, closeRaises, openOk, raced)
              ELSE s0
    IN IF s0.exc # NoExc THEN s0
       ELSE IF s1.exc # NoExc THEN s1
       ELSE IF direction(c) = "raise"
       THEN [s1 EXCEPT !.exc = Rejected]

       ELSE submit(s1, c, status, sense)

\* __exit__ that releases nothing
__exit__no_close(s, closeRaises) == s

\* SCSIDevice.__exit__: self.close(); returns None, so nothing is suppressed
__exit__(s, closeRaises) == close(s, closeRaises)

\* The with statement: the exception that leaves the block when inBlock was
\* raised in it and __exit__, which returned None, itself raised inExit.
with_exit(inBlock, inExit) == IF inExit # NoExc THEN inExit ELSE inBlock

\* Does execute, started in s, run the close-then-reopen sequence?
Reopens(s, detect) == detect /\ get_inode(s.path) # None /\ _is_replugged(s)

\* Did the operation that left r submit the command to the transport?
Submits(r) == \E i \in 1..Len(r.calls) : r.calls[i].op = "execute"

\* What linux_sgio.open and the os.stat after it can be given to do: the open
\* fails when there is no device node, and may fail when there is one; raced is
\* read only after an open that succeeded.  (An input an operation does not read
\* is fixed, here and in the actions, so that one step is not taken many times.)
OpenInputs(openOk, raced) ==
    /\ openOk => pathIno # None
    /\ ~openOk => raced = pathIno

\* SCSIDevice.__init__: without a backend for the device NotImplementedError is
\* raised, else self.open() runs
__init__(s, backend, openOk, raced) ==
    IF backend THEN open(s, openOk, raced)
    ELSE [s EXCEPT !.exc = "NotImplementedError"]

\* Did self.open() run in the operation that left r, and return?  (The os.stat
\* of get_inode is the call after linux_sgio.open.)
OpenReturned(r) ==
    \E i \in 1..Len(r.calls) - 1 :
        r.calls[i].op = "open" /\ r.calls[i].ret = "ok" /\ r.calls[i + 1].ret = "ok"

\* Did self.open() run in the operation that left r, and raise?
OpenRaised(r) ==
    /\ \E i \in 1..Len(r.calls) : r.calls[i].op = "open"
    /\ ~OpenReturned(r)

\* The bound of the run.
Bounded(r) == Len(r.handles) <= MaxHandles

\* What every operation of a live session writes back.
Commit(r, op) ==
    /\ Bounded(r)
    /\ _fd' = r.fd
    /\ _ino' = r.ino
    /\ pathIno' = r.path
    /\ handles' = r.handles
    /\ fdDev' = r.dev
    /\ calls' = r.calls
    /\ exc' = r.exc
    /\ cmd' = r.cmd
    /\ payload' = r.payload
    /\ lastOp' = op
    /\ pre' = [fd |-> _fd, ino |-> _ino, path |-> pathIno]
    /\ pending' = IF op = "replug" \/ op = "__exit__" THEN pending
                  ELSE IF scope = "in" THEN r.exc
                  ELSE NoExc
    /\ unusable' = IF op = "execute" /\ OpenRaised(r) THEN TRUE
                   ELSE IF OpenReturned(r) THEN FALSE
                   ELSE unusable

DevInit(paths) ==
    /\ alive = "no"
    /\ _fd = None
    /\ _ino = None
    /\ _detect_replugged = TRUE
    /\ pathIno \in paths
    /\ handles = <<>>
    /\ fdDev = None
    /\ scope = "out"
    /\ propagated = NoExc
    /\ lastOp = "none"
    /\ pre = [fd |-> None, ino |-> None, path |-> None]
    /\ pending = NoExc
    /\ calls = <<>>
    /\ exc = NoExc
    /\ cmd = NoCmd
    /\ payload = None
    /\ unusable = FALSE

\* no codec run
CodecIdle ==
    /\ cstep = "idle"
    /\ layoutId = "none"
    /\ values = <<>>
    /\ buf = <<>>
    /\ result = <<>>

Init == DevInit(Paths) /\ CodecIdle

\* SCSIDevice.__init__: no backend raises NotImplementedError; else self.open()
Construct ==
    /\ alive = "no"
    /\ \E backend \in BOOLEAN, detect \in BOOLEAN, openOk \in BOOLEAN, raced \in Paths :
         /\ OpenInputs(openOk, raced)
         /\ ~backend => ~openOk
         /\ \E r \in {__init__(Sess, backend, openOk, raced)} :
               /\ Commit(r, "__init__")
               /\ _detect_replugged' = detect
               /\ alive' = IF r.exc = NoExc THEN "ok" ELSE "failed"
    /\ UNCHANGED <<scope, propagated, codecVars>>

\* SCSIDevice.__enter__
Enter ==
    /\ alive = "ok" /\ scope = "out"
    /\ scope' = "in"
    /\ Commit(Sess, "__enter__")
    /\ UNCHANGED <<alive, _detect_replugged, propagated, codecVars>>

\* a call of SCSIDevice.open by the caller
Open ==
    /\ alive = "ok" /\ scope # "left"
    /\ \E openOk \in BOOLEAN, raced \in Paths :
         /\ OpenInputs(openOk, raced)
         /\ Commit(open(Sess, openOk, raced), "open")
    /\ UNCHANGED <<alive, _detect_replugged, scope, propagated, codecVars>>

\* a call of SCSIDevice.close by the caller
Close ==
    /\ alive = "ok" /\ scope # "left"
    /\ \E closeRaises \in BOOLEAN : Commit(close(Sess, closeRaises), "close")
    /\ UNCHANGED <<alive, _detect_replugged, scope, propagated, codecVars>>

\* a call of SCSIDevice.execute by the caller
Execute ==
    /\ alive = "ok" /\ scope # "left"
    /\ \E c \in Cmds, closeRaises \in BOOLEAN, openOk \in BOOLEAN, raced \in Paths,
          status \in StatusCodes, sense \in SenseVals :
         /\ OpenInputs(openOk, raced)
         /\ ~Reopens(Sess, _detect_replugged) => (~closeRaises /\ ~openOk)
         /\ status # CHECK_CONDITION => sense = MaxSense   \* read by no one
         /\ \E r \in {execute(Sess, _detect_replugged, c, closeRaises, openOk, raced,
                               status, sense)} :
               /\ ~Submits(r) => status = GOOD
               /\ Commit(r, "execute")
    /\ UNCHANGED <<alive, _detect_replugged, scope, propagated, codecVars>>

\* the with-block is left: __exit__ runs, and since it returns None the exception
\* raised in the block (or the one of __exit__ itself) goes on to the caller
Exit ==
    /\ alive = "ok" /\ scope = "in"
    /\ \E closeRaises \in BOOLEAN :
         \E r \in {__exit__(Sess, closeRaises)} :
            /\ Commit(r, "__exit__")
            /\ propagated' = with_exit(pending, r.exc)
    /\ scope' = "left"
    /\ UNCHANGED <<alive, _detect_replugged, codecVars>>

\* the environment: the device at the path is unplugged or replaced
Replug ==
    /\ scope # "left"
    /\ \E p \in Paths \ {pathIno} : Commit([Sess EXCEPT !.path = p], "replug")
    /\ UNCHANGED <<alive, _detect_replugged, scope, propagated, codecVars>>

\* The session driven by direct calls of its methods, in any order.
Next == Construct \/ Open \/ Close \/ Execute \/ Replug

Spec == Init /\ [][Next]_vars

\* The session driven through the with statement:
\*     with SCSIDevice(...) as d: d.execute(...) ...
\* An exception raised in the block leaves the block at once.
ExecuteInScope == scope = "in" /\ pending = NoExc /\ Execute

NextScoped == Construct \/ Enter \/ ExecuteInScope \/ Exit \/ Replug

SpecScoped == Init /\ [][NextScoped]_vars

\* ------------------------------------------------------- the codec runs
\* A codec run: a mapping is marshalled into a zeroed buffer, and the buffer is
\* unmarshalled under the same layout.
\* Or: a READ CAPACITY(16) command is executed by a device, which fills
\* cmd.datain, and the payload is unmarshalled.
InitCodec ==
    /\ DevInit({None})
    /\ \/ /\ cstep = "new"
          /\ layoutId \in {"PositionToElement", "ReadCapacity16"}
          /\ values \in Mappings(Layout(layoutId))
          /\ buf = <<>>
       \/ /\ cstep = "command"
          /\ layoutId = "ReadCapacity16"
          /\ values = <<>>
          /\ buf = ZeroBuf(BufLen(_datain_bits))
    /\ result = <<>>

Marshall ==
    /\ cstep = "new"
    /\ buf' = IF layoutId = "PositionToElement" /\ DOMAIN values = Names(_cdb_bits)
              THEN PositionToElement(values["opcode"],
                                     values["medium_transport_address"],
                                     values["destination_address"],
                                     values["invert"]).cdb
              ELSE marshall(Layout(layoutId), values)
    /\ cstep' = "packed"
    /\ UNCHANGED <<devVars, layoutId, values, result>>

\* the device's execute: cmd.datain is written in place
MockExecute ==
    /\ cstep = "command"
    /\ \E p \in Payloads :
          buf' = [i \in DOMAIN buf |-> IF i <= Len(Datain(p)) THEN Datain(p)[i] ELSE buf[i]]
    /\ cstep' = "received"
    /\ UNCHANGED <<devVars, layoutId, values, result>>

Unmarshall ==
    /\ cstep \in {"packed", "received"}
    /\ result' = unmarshall(Layout(layoutId), buf)
    /\ cstep' = "unpacked"
    /\ UNCHANGED <<devVars, layoutId, values, buf>>

NextCodec == Marshall \/ MockExecute \/ Unmarshall

SpecCodec == InitCodec /\ [][NextCodec]_vars

\* --------------------------------------------------------------- claims
\* the positions in calls of the calls of one kind
Idx(op) == {i \in 1..Len(calls) : calls[i].op = op}

\* the last operation was an execute that found the recorded identity to differ
\* from the live identity probe, with replug detection enabled
ReplugCase ==
    /\ lastOp = "execute"
    /\ _detect_replugged
    /\ pre.path # None
    /\ pre.path # pre.ino

\* the open of the implicit reopen raised: linux_sgio.open did, or get_inode did
ReopenFailed ==
    /\ ReplugCase
    /\ \/ \E i \in Idx("open") : calls[i].ret = "raised"
       \/ \E i \in Idx("open") : i < Len(calls) /\ calls[i + 1].ret = "raised"

\* the open of the implicit reopen returned
ReopenSucceeded ==
    /\ ReplugCase
    /\ \E i \in Idx("open") :
          calls[i].ret = "ok" /\ i < Len(calls) /\ calls[i + 1].ret = "ok"

C2_CloseFailureSuppressed ==
    (ReopenSucceeded /\ \E i \in Idx("close") : calls[i].ret = "raised") =>
        /\ exc # "CloseError"
        /\ direction(cmd) # "raise" =>
              \E k \in Idx("execute") : calls[k].fd = _fd /\ _fd # pre.fd

\* C3: an execute whose command has datain and dataout both non-empty is
\* rejected with the unsupported-transfer error, and makes no transport open,
\* close or execute, in every session state.
C3_DirectionExclusivity ==
    (lastOp = "execute" /\ cmd.datain > 0 /\ cmd.dataout > 0) =>
        /\ exc = Rejected
        /\ Idx("open") = {} /\ Idx("close") = {} /\ Idx("execute") = {}

\* C4: a status that is neither success nor check condition makes execute raise
\* the transport failure error; execute returns normally only for success.
C4_UnknownStatusFails ==
    \A k \in Idx("execute") :
        /\ calls[k].ret \notin {GOOD, CHECK_CONDITION} => exc = "SCSISGIOError"
        /\ exc = NoExc => calls[k].ret = GOOD

\* C5: when the transport returns the check-condition status, execute raises
\* CheckCondition with the sense buffer of the command as the transport left it
\* in that call.
C5_CheckConditionSense ==
    \A k \in Idx("execute") :
        calls[k].ret = CHECK_CONDITION =>
            /\ exc = "CheckCondition"
            /\ payload = calls[k].sense
            /\ payload = cmd.sense

C5_Witness ==
    /\ lastOp = "execute"
    /\ \E k \in Idx("execute") :
          calls[k].ret = CHECK_CONDITION /\ calls[k].sense \in SenseVals
    /\ payload \in SenseVals

\* C6: when the open of the implicit reopen fails, execute raises and the command
\* is not submitted to the transport.
C6_ReopenFailureFatal ==
    ReopenFailed => (exc # NoExc /\ Idx("execute") = {})

C6_Witness ==
    /\ ReopenFailed
    /\ \E i \in Idx("close") : calls[i].ret = "ok"
    /\ exc = "OpenError"

\* C7: no transport handle is passed to linux_sgio.close more than once.
C7_ClosedAtMostOnce ==
    \A h \in 1..Len(handles) : handles[h] <= 1

\* C8 as stated: when the with-block is left, the handle held was closed by the
\* exit, no handle acquired remains unclosed, and an error raised in the block
\* is the one that reaches the caller.
C8_ScopeReleasesAndPropagates ==
    scope = "left" =>
        /\ Len(calls) = 1 /\ calls[1].op = "close" /\ calls[1].fd = pre.fd
        /\ \A h \in 1..Len(handles) : handles[h] >= 1
        /\ pending # NoExc => propagated = pending

\* C8 as amended: when the with-block is left, the exit has passed the handle
\* held to close, no handle acquired remains unclosed, and the error that reaches
\* the caller is the one raised in the block unless the close of the exit itself
\* raises, in which case it is that close error.
C8_ScopeReleases ==
    scope = "left" =>
        /\ lastOp = "__exit__"
        /\ Len(calls) = 1 /\ calls[1].op = "close" /\ calls[1].fd = pre.fd
        /\ pre.fd = _fd
        /\ \A h \in 1..Len(handles) : handles[h] >= 1
        /\ calls[1].ret = "ok" => propagated = pending
        /\ calls[1].ret = "raised" => propagated = "CloseError"

C8_Witness ==
    /\ scope = "left"
    /\ Len(handles) > 1
    /\ pending = "CheckCondition"
    /\ propagated = "CheckCondition"

\* C9: unpacking the buffer that packing produced returns every value packed:
\* for one field packed alone and for a whole mapping, under the
\* PositionToElement layout (two-byte big-endian fields) and under the
\* READ CAPACITY(16) layout (fields sharing a byte).
C9_RoundTrip ==
    cstep = "unpacked" =>
        /\ \A n \in DOMAIN values : result[n] = values[n]
        /\ DOMAIN values = Names(Layout(layoutId)) => result = values

C9_Witness ==
    /\ cstep = "unpacked"
    /\ layoutId = "PositionToElement"
    /\ DOMAIN values = Names(_cdb_bits)
    /\ values["medium_transport_address"] = \H2001
    /\ values["destination_address"] = \Hffff
    /\ result = values

\* C10: packing the PositionToElement layout into a zeroed 9-byte buffer puts
\* opcode in byte 0, medium_transport_address in bytes 2-3 and
\* destination_address in bytes 4-5, most significant byte first, invert in bit
\* 0 of byte 8, and leaves bytes 1, 6 and 7 zero; the example mapping gives
\* 2B 00 00 10 00 20 00 00 01 and unpacks to itself.
P2E_Example ==
    [opcode |-> \H2b, medium_transport_address |-> \H0010,
     destination_address |-> \H0020, invert |-> 1]

C10_PositionToElementBytes ==
    (cstep \in {"packed", "unpacked"} /\ layoutId = "PositionToElement"
       /\ DOMAIN values = Names(Layout(layoutId))) =>
        /\ buf = <<values["opcode"], 0,
                   values["medium_transport_address"] \div 256,
                   values["medium_transport_address"] % 256,
                   values["destination_address"] \div 256,
                   values["destination_address"] % 256,
                   0, 0, values["invert"]>>
        /\ values = P2E_Example =>
              /\ buf = <<\H2b, \H00, \H00, \H10, \H00, \H20, \H00, \H00, \H01>>
              /\ cstep = "unpacked" => result = P2E_Example

C10_Witness ==
    /\ cstep = "unpacked"
    /\ layoutId = "PositionToElement"
    /\ values = P2E_Example
    /\ buf = <<\H2b, \H00, \H00, \H10, \H00, \H20, \H00, \H00, \H01>>
    /\ result = P2E_Example

\* a payload was read from a device and unmarshalled
PayloadRead == cstep = "unpacked" /\ values = <<>>

\* C11: unpacking a READ CAPACITY(16) payload gives each field the bits of its
\* mask in the bytes at its offset, read as one big-endian integer and shifted
\* down to bit 0, fields that share a byte each on their own: returned_lba is
\* bytes 0-7 and block_length bytes 8-11; p_type is bits 3-1 and prot_en bit 0 of
\* byte 12; p_i_exponent is the high and lbppbe the low half of byte 13; lbpme
\* is bit 7 and lbprz bit 6 of byte 14, and lowest_aligned_lba the low 6 bits of
\* byte 14 followed by byte 15.  The payload of the test gives returned_lba
\* 2^48, block_length 4096, p_type 4, prot_en 1, p_i_exponent 8, lbppbe 8,
\* lbpme 1, lbprz 1 and lowest_aligned_lba 8193.
C11_UnpackPayload ==
    PayloadRead =>
        /\ DOMAIN result = Names(_datain_bits)
        /\ result["returned_lba"] = SubSeq(buf, 1, 8)
        /\ result["block_length"] = SubSeq(buf, 9, 12)
        /\ result["p_type"] = (buf[13] \div 2) % 8
        /\ result["prot_en"] = buf[13] % 2
        /\ result["p_i_exponent"] = buf[14] \div 16
        /\ result["lbppbe"] = buf[14] % 16
        /\ result["lbpme"] = buf[15] \div 128
        /\ result["lbprz"] = (buf[15] \div 64) % 2
        /\ result["lowest_aligned_lba"] = 256 * (buf[15] % 64) + buf[16]
        /\ buf = MockPayload =>
              /\ result["returned_lba"] = WPow2(48, 8)
              /\ result["block_length"] = IntToBytes(4096, 4)
              /\ result["p_type"] = 4 /\ result["prot_en"] = 1
              /\ result["p_i_exponent"] = 8 /\ result["lbppbe"] = 8
              /\ result["lbpme"] = 1 /\ result["lbprz"] = 1
              /\ result["lowest_aligned_lba"] = 8193

C11_Witness ==
    /\ PayloadRead
    /\ SubSeq(buf, 1, 2) = <<\H00, \H01>>
    /\ SubSeq(buf, 13, 16) = <<\H09, \H88, \He0, \H01>>
    /\ result["returned_lba"] = WPow2(48, 8)
    /\ result["p_type"] = 4 /\ result["prot_en"] = 1
    /\ result["lowest_aligned_lba"] = 8193

\* the bits of a buffer that the mask of a field covers, each as <<byte, bit>>
\* with bytes counted from 0 and bit 0 the least significant
BitsAt(f) ==
    LET m == IF IsWide(f) THEN f.wmask ELSE IntToBytes(f.mask, Width(f))
    IN UNION {{<<f.offset + i - 1, b>> : b \in {c \in 0..7 : (m[i] \div Pow2(c)) % 2 = 1}} :
                 i \in 1..Width(f)}

\* no two distinct fields of a layout cover a common bit
NonOverlap(layout) ==
    \A i, j \in 1..Len(layout) :
        i # j => BitsAt(layout[i]) \cap BitsAt(layout[j]) = {}

\* C12: in the PositionToElement layout no two distinct fields share a bit once
\* each mask is placed at its byte offset; and so, in a buffer packed under it,
\* every field unpacks to the value packed for it, and to 0 when none was,
\* whatever was packed for the other fields.
C12_NonOverlap ==
    /\ (cstep = "packed" /\ layoutId = "PositionToElement") =>
          NonOverlap(Layout(layoutId))
    /\ (cstep = "unpacked" /\ layoutId = "PositionToElement") =>
          \A n \in Names(_cdb_bits) :
              result[n] = IF n \in DOMAIN values THEN values[n] ELSE 0

C12_Witness ==
    /\ cstep = "unpacked"
    /\ layoutId = "PositionToElement"
    /\ DOMAIN values = {"destination_address"}
    /\ values["destination_address"] = \Hffff
    /\ result["medium_transport_address"] = 0
    /\ result["invert"] = 0
    /\ result["destination_address"] = \Hffff

\* C13: once the implicit reopen of an execute has failed, and until an open
\* succeeds, no execute submits the command on a handle that was already passed
\* to linux_sgio.close, whatever the device at the path in that later call.
C13_UnusableAfterFailedReopen ==
    [][(unusable /\ lastOp' = "execute") =>
          \A k \in 1..Len(calls') :
              calls'[k].op = "execute" => handles'[calls'[k].fd] = 0]_vars

\* C14: while the session holds an open handle, the identity recorded is that of
\* the device the handle is bound to, also when the device at the path was
\* replaced between linux_sgio.open and get_inode; and an execute that submits
\* the command on a handle bound to a device other than the one at the path has
\* run the close and the reopen first.
C14_IdentityBoundToHandle ==
    /\ (alive = "ok" /\ _fd # None /\ handles[_fd] = 0) => _ino = fdDev
    /\ lastOp = "execute" =>
          \A k \in Idx("execute") :
              fdDev # pathIno => (Idx("close") # {} /\ Idx("open") # {})

\* the last operation was an execute that detected no identity drift: replug
\* detection is disabled, or the live identity equals the recorded one
NoDriftCase ==
    /\ lastOp = "execute"
    /\ ~_detect_replugged \/ pre.path = pre.ino

\* C15: an execute that detects no identity drift leaves the handle and the
\* recorded identity as they were and makes no close and no open, whether it
\* returns, raises CheckCondition or SCSISGIOError, or rejects the command.
C15_NoDriftFrame ==
    NoDriftCase =>
        /\ _fd = pre.fd
        /\ _ino = pre.ino
        /\ Idx("close") = {} /\ Idx("open") = {}
        /\ exc \in {NoExc, "CheckCondition", "SCSISGIOError", Rejected}

C15_Witness ==
    /\ NoDriftCase
    /\ _detect_replugged
    /\ exc = "CheckCondition"
    /\ _fd = pre.fd /\ _ino = pre.ino

\* C16: after an implicit reopen that succeeds the recorded identity is the live
\* identity probed by that reopen, and an execute that follows it with no
\* device replacement in between makes no close and no open.
C16_OneRepairPerReplacement ==
    /\ [](ReopenSucceeded => _ino = pathIno)
    /\ [][(ReopenSucceeded /\ lastOp' = "execute") =>
             \A k \in 1..Len(calls') : calls'[k].op \notin {"close", "open"}]_vars

C16_Witness ==
    /\ ReopenSucceeded
    /\ _fd # pre.fd
    /\ _ino = pathIno /\ _ino # pre.ino

\* C17: the direction execute hands to the transport is DXFER_NONE when datain
\* and dataout are both empty, DXFER_FROM_DEV when only datain is non-empty and
\* DXFER_TO_DEV when only dataout is; a PositionToElement command, built with
\* both lengths 0, is submitted with DXFER_NONE.
C17_Direction ==
    lastOp = "execute" =>
        \A k \in Idx("execute") :
            /\ (cmd.datain = 0 /\ cmd.dataout = 0) => calls[k].dir = DXFER_NONE
            /\ (cmd.datain > 0 /\ cmd.dataout = 0) => calls[k].dir = DXFER_FROM_DEV
            /\ (cmd.datain = 0 /\ cmd.dataout > 0) => calls[k].dir = DXFER_TO_DEV
            /\ "cdb" \in DOMAIN cmd => calls[k].dir = DXFER_NONE

C17_Witness ==
    /\ lastOp = "execute"
    /\ "cdb" \in DOMAIN cmd
    /\ cmd.cdb = <<\H2b, \H00, \H00, \H10, \H00, \H20, \H00, \H00, \H01>>
    /\ \E k \in Idx("execute") : calls[k].dir = DXFER_NONE

\* C18: an execute submits the command to the transport at most once: once when
\* the status is check condition or transport failure, and not at all when it
\* fails in the reopen or rejects the command.
C18_AtMostOneSubmission ==
    lastOp = "execute" =>
        /\ Cardinality(Idx("execute")) <= 1
        /\ exc \in {"CheckCondition", "SCSISGIOError"} => Cardinality(Idx("execute")) = 1
        /\ exc \in {Rejected, "OpenError", "StatError", "CloseError"} =>
              Idx("execute") = {}

C18_Witness ==
    /\ lastOp = "execute"
    /\ exc = "SCSISGIOError"
    /\ Cardinality(Idx("execute")) = 1
    /\ calls[Len(calls)].ret = SGIO_ERROR

\* C19: with replug detection disabled an execute makes no identity probe, no
\* close and no open, also when the device at the path was replaced, and
\* submits the command (unless it rejects it) on the handle the session held.
C19_DetectionDisabled ==
    (lastOp = "execute" /\ ~_detect_replugged) =>
        /\ Idx("stat") = {} /\ Idx("close") = {} /\ Idx("open") = {}
        /\ _fd = pre.fd /\ _ino = pre.ino
        /\ \A k \in Idx("execute") : calls[k].fd = pre.fd
        /\ direction(cmd) # "raise" => Idx("execute") # {}

C19_Witness ==
    /\ lastOp = "execute" /\ ~_detect_replugged
    /\ pre.path \notin {None, pre.ino}
    /\ \E k \in Idx("execute") : calls[k].fd = pre.fd

====
